---- MODULE Spec2Model ----
(***************************************************************************)
(* A model of the on-demand SDN slicing controller                         *)
(* (src/slicing_controller.py): the static topology graph with its         *)
(* per-edge bandwidth counters, the active-slice table, the rules the      *)
(* controller has programmed on the connected switches, the live shapers,  *)
(* and the two lifecycle operations activate_slice / deactivate_slice.     *)
(***************************************************************************)
EXTENDS Integers, Sequences, FiniteSets, TLC

(***************************************************************************)
(* Static data of the controller.                                          *)
(***************************************************************************)

\* switches = [1, 2, 3, 4, 5]
Switches == 1..5

\* static_links: (u, v, {'port': p}) for every directed edge
static_links ==
    { <<1, 2, 1>>, <<2, 1, 1>>,
      <<1, 4, 2>>, <<4, 1, 1>>,
      <<2, 3, 2>>, <<3, 2, 1>>,
      <<2, 5, 3>>, <<5, 2, 1>> }

Edges == { <<l[1], l[2]>> : l \in static_links }

\* self.net[u][v]['port']
Port(u, v) == (CHOOSE l \in static_links : l[1] = u /\ l[2] = v)[3]

\* self.net.edges[u, v]['capacity'] = 100
Capacity == 100

\* get_host_location: the host -> switch map; None (modelled as 0) for a
\* host that is not in the map.
host_to_switch_map ==
    [ h \in {"h1", "h2", "g1", "h5", "h3", "h4", "g2", "gs", "ps"} |->
        CASE h \in {"h1", "h2", "g1"} -> 1
          [] h = "h5" -> 2
          [] h \in {"h3", "h4", "g2"} -> 3
          [] h = "gs" -> 4
          [] h = "ps" -> 5 ]

None == 0

get_host_location(h) ==
    IF h \in DOMAIN host_to_switch_map THEN host_to_switch_map[h] ELSE None

\* IP_MAP: host name -> IPv4 address
IP_MAP ==
    [ h \in {"h1", "h2", "h3", "h4", "h5", "g1", "g2", "gs", "ps"} |->
        CASE h = "h1" -> "10.0.0.1" [] h = "h2" -> "10.0.0.2"
          [] h = "h3" -> "10.0.0.3" [] h = "h4" -> "10.0.0.4"
          [] h = "h5" -> "10.0.0.5" [] h = "g1" -> "10.0.0.6"
          [] h = "g2" -> "10.0.0.7" [] h = "gs" -> "10.0.0.8"
          [] h = "ps" -> "10.0.0.9" ]

(***************************************************************************)
(* The slice catalog (self.slices, loaded from slices.yaml).  The catalog  *)
(* is configuration: the entries below are the inputs of the model.  Slice *)
(* G carries no 'priority' key, so spec.get('priority', 0) defaults.       *)
(***************************************************************************)
Flow(s, d) == [src |-> s, dst |-> d]

CatalogSeq ==
    << [name |-> "A", capacity_pct |-> 60, priority |-> 1,
        flows |-> << Flow("h1", "h3") >>],
       [name |-> "B", capacity_pct |-> 50, priority |-> 2,
        flows |-> << Flow("h1", "h3") >>],
       [name |-> "D", capacity_pct |-> 30, priority |-> 1,
        flows |-> << Flow("h1", "h3"), Flow("h2", "h4") >>],
       [name |-> "E", capacity_pct |-> 40, priority |-> 1,
        flows |-> << Flow("h2", "h5") >>],
       [name |-> "H", capacity_pct |-> 70, priority |-> 3,
        flows |-> << Flow("h5", "h4") >>],
       [name |-> "G", capacity_pct |-> 20,
        flows |-> << Flow("g1", "gs"), Flow("h1", "h2") >>],
       [name |-> "C", capacity_pct |-> 10, priority |-> 1,
        flows |-> << Flow("h1", "hX") >>] >>

SliceNames == { CatalogSeq[i].name : i \in DOMAIN CatalogSeq }

\* self.slices[name]
slices == [ n \in SliceNames |->
              CatalogSeq[CHOOSE i \in DOMAIN CatalogSeq : CatalogSeq[i].name = n] ]

\* Names a request may carry: the catalog's names and one unknown name.
RequestNames == SliceNames \cup {"Z"}

\* spec.get('priority', 0)
PriorityOf(n) ==
    IF "priority" \in DOMAIN slices[n] THEN slices[n].priority ELSE 0

(***************************************************************************)
(* nx.shortest_path over the static graph: a path with the fewest hops.    *)
(***************************************************************************)
RECURSIVE PathsUpTo(_)
\* the simple paths of at most n edges, as sequences of switch ids
PathsUpTo(n) ==
    IF n = 0 THEN { <<s>> : s \in Switches }
    ELSE LET prev == PathsUpTo(n - 1)
             ext  == { x \in prev \X Switches :
                         /\ <<x[1][Len(x[1])], x[2]>> \in Edges
                         /\ \A i \in 1..Len(x[1]) : x[1][i] # x[2] }
         IN  prev \cup { Append(x[1], x[2]) : x \in ext }

SimplePaths == PathsUpTo(Cardinality(Switches) - 1)

PathsBetween(u, v) == { p \in SimplePaths : p[1] = u /\ p[Len(p)] = v }

\* NetworkXNoPath is raised when no path joins the two switches
HasPath(u, v) == PathsBetween(u, v) # {}

shortest_path_table ==
    [ uv \in { x \in Switches \X Switches : HasPath(x[1], x[2]) } |->
        CHOOSE p \in PathsBetween(uv[1], uv[2]) :
            \A q \in PathsBetween(uv[1], uv[2]) : Len(p) <= Len(q) ]

shortest_path(u, v) == shortest_path_table[<<u, v>>]

\* zip(path, path[1:]) as a sequence of directed edges
PathEdges(path) == [ i \in 1..(Len(path) - 1) |-> <<path[i], path[i + 1]>> ]

\* (u, v) in zip(active_path, active_path[1:])
Traverses(path, e) == \E i \in 1..(Len(path) - 1) : <<path[i], path[i + 1]>> = e

(***************************************************************************)
(* The controller's mutable state as one value:                            *)
(*   active  - self.active_slices, an insertion-ordered dict: a sequence   *)
(*             of records [name, ifaces, paths, bw] in insertion order     *)
(*   used    - self.net.edges[u, v]['used_bw'] for every directed edge     *)
(*   rules   - the flow entries programmed on the switches by add_flow     *)
(*   shapers - the queues created by queue_create.sh and not yet deleted   *)
(***************************************************************************)
ActiveNames(active) == { active[i].name : i \in 1..Len(active) }

\* slice_name in self.active_slices
IsActive(active, name) == name \in ActiveNames(active)

\* self.active_slices[name]
RecordOf(active, name) ==
    active[CHOOSE i \in 1..Len(active) : active[i].name = name]

(***************************************************************************)
(* activate_slice, phase 1: bandwidth check and victim identification.     *)
(***************************************************************************)

\* Preemptable with the priority test relaxed to "not higher"
PreemptableNotHigher(active, priority, e) ==
    SelectSeq(active,
              LAMBDA r : /\ PriorityOf(r.name) <= priority
                         /\ \E k \in 1..Len(r.paths) : Traverses(r.paths[k], e))

\* the slices of self.active_slices.items(), in dict order, whose priority
\* is lower than the candidate's and one of whose paths holds edge e
Preemptable(active, priority, e) ==
    SelectSeq(active,
              LAMBDA r : /\ PriorityOf(r.name) < priority
                         /\ \E k \in 1..Len(r.paths) : Traverses(r.paths[k], e))

\* x placed behind every element of the sorted sequence whose priority is
\* not greater: list.sort is stable
InsertByPriority(sorted, x) ==
    LET before == SelectSeq(sorted,
                     LAMBDA r : PriorityOf(r.name) <= PriorityOf(x.name))
        after  == SelectSeq(sorted,
                     LAMBDA r : PriorityOf(r.name) > PriorityOf(x.name))
    IN  before \o <<x>> \o after

RECURSIVE SortPrefix(_, _)
SortPrefix(seq, n) ==
    IF n = 0 THEN <<>> ELSE InsertByPriority(SortPrefix(seq, n - 1), seq[n])

\* preemptable_slices.sort(key=lambda x: x[2])
SortByPriority(seq) == SortPrefix(seq, Len(seq))

\* the loop test of the victim loop: stop once enough bandwidth is free
Enough(available_bw, freed_bw, required_bw) ==
    available_bw + freed_bw >= required_bw

RECURSIVE PickEveryVictim(_, _, _, _, _, _)
\* PickVictims without the break: every preemptable slice becomes a victim
PickEveryVictim(sorted, i, available_bw, required_bw, freed_bw, chosen) ==
    IF i > Len(sorted)
    THEN [freed |-> freed_bw, chosen |-> chosen]
    ELSE PickEveryVictim(sorted, i + 1, available_bw, required_bw,
                         freed_bw + sorted[i].bw, Append(chosen, sorted[i].name))

RECURSIVE PickVictims(_, _, _, _, _, _)
\* for victim_name, victim_bw, _ in preemptable_slices: ...
PickVictims(sorted, i, available_bw, required_bw, freed_bw, chosen) ==
    IF i > Len(sorted) \/ Enough(available_bw, freed_bw, required_bw)
    THEN [freed |-> freed_bw, chosen |-> chosen]
    ELSE PickVictims(sorted, i + 1, available_bw, required_bw,
                     freed_bw + sorted[i].bw, Append(chosen, sorted[i].name))

\* what phase 1 records about one edge: whether it is a bottleneck, the
\* victims picked on it in order, and whether the edge can be satisfied
LinkResult(e, available_bw, required_bw, pick) ==
    [ edge       |-> e,
      available  |-> available_bw,
      bottleneck |-> required_bw > available_bw,
      chosen     |-> IF required_bw > available_bw THEN pick.chosen ELSE <<>>,
      freed      |-> IF required_bw > available_bw THEN pick.freed ELSE 0,
      ok         |-> \/ ~(required_bw > available_bw)
                     \/ Enough(available_bw, pick.freed, required_bw) ]

\* phase 1 on one edge (u, v) of a path of the candidate
CheckLink(active, used, priority, required_bw, e) ==
    LinkResult(e, Capacity - used[e], required_bw,
               PickVictims(SortByPriority(Preemptable(active, priority, e)),
                           1, Capacity - used[e], required_bw, 0, <<>>))

SeqRange(seq) == { seq[i] : i \in 1..Len(seq) }

\* the links phase 1 found to be bottlenecks, in the order met
NoteLink(links, link) == IF link.bottleneck THEN Append(links, link) ELSE links

RECURSIVE CheckEdges(_, _, _, _, _, _, _)
\* one edge done: return False, msg when it cannot be satisfied, else
\* victims_to_preempt.update(victims_for_this_link) and the next edge
AfterLink(active, used, priority, required_bw, path, i, acc, link) ==
    IF ~link.ok
    THEN [acc EXCEPT !.status = "refused", !.links = NoteLink(@, link)]
    ELSE CheckEdges(active, used, priority, required_bw, path, i + 1,
            [acc EXCEPT !.links = NoteLink(@, link),
                        !.victims = @ \cup SeqRange(link.chosen)])

\* for i in range(len(path) - 1): ... over one path; acc is the phase-1
\* result so far
CheckEdges(active, used, priority, required_bw, path, i, acc) ==
    IF i > Len(path) - 1 THEN acc
    ELSE AfterLink(active, used, priority, required_bw, path, i, acc,
                   CheckLink(active, used, priority, required_bw,
                             <<path[i], path[i + 1]>>))

RECURSIVE CheckFlows(_, _, _, _, _, _)
\* one flow done: a return inside the edge loop ends phase 1
AfterFlow(loaded, active, used, name, k, r) ==
    IF r.status # "ok" THEN r
    ELSE CheckFlows(loaded, active, used, name, k + 1, r)

\* the body of the flow loop for a flow whose switches are src_dpid and
\* dst_dpid.  An exception leaves activate_slice ("raise") when
\* nx.shortest_path is asked about a node that is not in the graph, or is
\* given None, for which it answers with a dict that path[i] cannot index.
CheckFlow(loaded, active, used, name, k, acc, src_dpid, dst_dpid) ==
    IF ~loaded \/ src_dpid = None \/ dst_dpid = None
    THEN [acc EXCEPT !.status = "raise"]
    ELSE IF ~HasPath(src_dpid, dst_dpid)
    THEN [acc EXCEPT !.status = "no_path"]
    ELSE AfterFlow(loaded, active, used, name, k,
            CheckEdges(active, used, PriorityOf(name),
                       slices[name].capacity_pct,
                       shortest_path(src_dpid, dst_dpid), 1,
                       [acc EXCEPT !.paths =
                           Append(@, shortest_path(src_dpid, dst_dpid))]))

\* for flow in spec['flows']: ...; status is "ok" (go on to phase 2),
\* "refused" or "no_path" (return False, msg) or "raise"
CheckFlows(loaded, active, used, name, k, acc) ==
    IF k > Len(slices[name].flows) THEN acc
    ELSE CheckFlow(loaded, active, used, name, k, acc,
                   get_host_location(slices[name].flows[k].src),
                   get_host_location(slices[name].flows[k].dst))

\* the admission record of a call that ran no phase 1
NoAdmission == [status |-> "none", victims |-> {}, links |-> <<>>, paths |-> <<>>]

Phase1(loaded, active, used, name) ==
    CheckFlows(loaded, active, used, name, 1,
               [status |-> "ok", victims |-> {}, links |-> <<>>, paths |-> <<>>])

(***************************************************************************)
(* Rules on the switches.  A rule is [sw, priority, ipv4_src, ipv4_dst,    *)
(* out]: the match is eth_type 0x0800 with the given addresses (Wildcard   *)
(* for a field the match leaves out), out is the output port, Drop for the *)
(* empty action list.  A switch keeps one entry per (priority, match).     *)
(***************************************************************************)
Wildcard == "*"

\* the empty action list of the isolation rules
Drop == 0

SameEntry(r, sw, priority, src, dst) ==
    /\ r.sw = sw /\ r.priority = priority
    /\ r.ipv4_src = src /\ r.ipv4_dst = dst

\* add_flow(datapath, priority, match, actions)
add_flow(rules, sw, priority, src, dst, out) ==
    { r \in rules : ~SameEntry(r, sw, priority, src, dst) } \cup
    { [sw |-> sw, priority |-> priority, ipv4_src |-> src, ipv4_dst |-> dst,
       out |-> out] }

\* remove_flow(datapath, priority, match)
remove_flow(rules, sw, priority, src, dst) ==
    { r \in rules : ~SameEntry(r, sw, priority, src, dst) }

RECURSIVE AddHops(_, _, _, _, _, _)
\* for i in range(len(path) - 1): a priority-10 rule on every hop whose
\* datapath is connected (if not datapath: continue)
AddHops(rules, dps, path, i, src, dst) ==
    IF i > Len(path) - 1 THEN rules
    ELSE AddHops(IF path[i] \in dps
                 THEN add_flow(rules, path[i], 10, src, dst,
                               Port(path[i], path[i + 1]))
                 ELSE rules,
                 dps, path, i + 1, src, dst)

\* the priority-9 isolation rule on switch sw, if its datapath is connected
AddDrop(rules, dps, sw, src) ==
    IF sw \in dps THEN add_flow(rules, sw, 9, src, Wildcard, Drop) ELSE rules

\* list(path).reverse()
Reverse(path) == [ i \in 1..Len(path) |-> path[Len(path) + 1 - i] ]

\* install_path, the rules: forward rules, the drop rule at the first hop,
\* reverse rules, the drop rule at the reverse first hop
InstallRules(rules, dps, path, a, b) ==
    AddDrop(AddHops(AddDrop(AddHops(rules, dps, path, 1, a, b),
                            dps, path[1], a),
                    dps, Reverse(path), 1, b, a),
            dps, Reverse(path)[1], b)

\* f"s{first_hop_src}-eth{port}"
Iface(u, v) == [sw |-> u, eth |-> Port(u, v)]

ReplaceRecord(active, name, rec) ==
    [ i \in 1..Len(active) |-> IF active[i].name = name THEN rec ELSE active[i] ]

\* install_path, the QoS part: path[1] of a one-switch path is an
\* IndexError; else the shaper is created unless the interface is recorded
ApplyQoS(st, path, flow, slice_name, pct) ==
    IF Len(path) < 2 THEN [st |-> st, raised |-> TRUE]
    ELSE IF Iface(path[1], path[2]) \in RecordOf(st.active, slice_name).ifaces
    THEN [st |-> st, raised |-> FALSE]
    ELSE [st |-> [st EXCEPT
                    !.active = ReplaceRecord(@, slice_name,
                        [RecordOf(st.active, slice_name) EXCEPT
                            !.ifaces = @ \cup {Iface(path[1], path[2])}]),
                    !.shapers = @ \cup
                        {[slice |-> slice_name, pct |-> pct,
                          src |-> IP_MAP[flow.src], dst |-> IP_MAP[flow.dst],
                          iface |-> Iface(path[1], path[2])]}],
          raised |-> FALSE]

\* install_path(path, flow, slice_name, pct): the state after it, and
\* whether it raised
install_path(st, dps, path, flow, slice_name, pct) ==
    ApplyQoS([st EXCEPT !.rules = InstallRules(@, dps, path, IP_MAP[flow.src],
                                               IP_MAP[flow.dst])],
             path, flow, slice_name, pct)

\* self.net.edges[u, v]['used_bw'] += required_bw on every edge of the path
Reserve(used, path, bw) ==
    [ e \in Edges |-> IF Traverses(path, e) THEN used[e] + bw ELSE used[e] ]

\* self.net.edges[u, v]['used_bw'] -= bw_to_release on every edge of the path
Release(used, path, bw) ==
    [ e \in Edges |-> IF Traverses(path, e) THEN used[e] - bw ELSE used[e] ]

\* ReservePath reserving once per edge and slice: an edge that an earlier
\* path of the record traverses is not reserved again
ReservePathOncePerEdge(st, name, path) ==
    [st EXCEPT !.active = ReplaceRecord(@, name,
                   [RecordOf(st.active, name) EXCEPT !.paths = Append(@, path)]),
               !.used = [ e \in Edges |->
                   IF /\ Traverses(path, e)
                      /\ ~\E k \in 1..Len(RecordOf(st.active, name).paths) :
                            Traverses(RecordOf(st.active, name).paths[k], e)
                   THEN @[e] + RecordOf(st.active, name).bw
                   ELSE @[e] ]]

\* phase 3 for one item: the path is stored in the record, then the
\* bandwidth is reserved
ReservePath(st, name, path) ==
    [st EXCEPT !.active = ReplaceRecord(@, name,
                   [RecordOf(st.active, name) EXCEPT !.paths = Append(@, path)]),
               !.used = Reserve(@, path, RecordOf(st.active, name).bw)]

RECURSIVE InstallAll(_, _, _, _, _)
\* one item done: an exception of install_path leaves activate_slice
AfterInstall(r, dps, name, paths, k) ==
    IF r.raised THEN [st |-> r.st, status |-> "raise"]
    ELSE InstallAll(r.st, dps, name, paths, k + 1)

\* phase 3, for item in all_paths: record the path, reserve, install
InstallAll(st, dps, name, paths, k) ==
    IF k > Len(paths) THEN [st |-> st, status |-> "ok"]
    ELSE AfterInstall(install_path(ReservePath(st, name, paths[k]), dps,
                                   paths[k], slices[name].flows[k], name,
                                   slices[name].capacity_pct),
                      dps, name, paths, k)

(***************************************************************************)
(* deactivate_slice                                                        *)
(***************************************************************************)
RECURSIVE RemoveOnAll(_, _, _, _)
\* for dp in datapath_list.values(): remove_flow(dp, 10, match)
RemoveOnAll(rules, dps, src, dst) ==
    IF dps = {} THEN rules
    ELSE RemoveOnAll(remove_flow(rules, CHOOSE d \in dps : TRUE, 10, src, dst),
                     dps \ {CHOOSE d \in dps : TRUE}, src, dst)

\* the isolation rule of host h is removed on its switch, if connected
RemoveDrop(rules, dps, h) ==
    IF get_host_location(h) \in dps
    THEN remove_flow(rules, get_host_location(h), 9, IP_MAP[h], Wildcard)
    ELSE rules

\* RemoveFlow that leaves the isolation rules in place
RemoveFlowKeepsDrops(rules, dps, flow) ==
    RemoveOnAll(RemoveOnAll(rules, dps, IP_MAP[flow.src], IP_MAP[flow.dst]),
                dps, IP_MAP[flow.dst], IP_MAP[flow.src])

\* one flow's rules: forward and reverse on every datapath, then the two
\* isolation rules
RemoveFlow(rules, dps, flow) ==
    RemoveDrop(
        RemoveDrop(
            RemoveOnAll(RemoveOnAll(rules, dps, IP_MAP[flow.src], IP_MAP[flow.dst]),
                        dps, IP_MAP[flow.dst], IP_MAP[flow.src]),
            dps, flow.src),
        dps, flow.dst)

RECURSIVE RemoveFlows(_, _, _, _)
\* for flow in spec['flows']: remove the forward, reverse and isolation rules
RemoveFlows(rules, dps, flows, k) ==
    IF k > Len(flows) THEN rules
    ELSE RemoveFlows(RemoveFlow(rules, dps, flows[k]), dps, flows, k + 1)

\* ReleasePaths releasing the slice's bandwidth once, on its first path only
ReleaseFirstPath(used, paths, k, bw) ==
    IF paths = <<>> THEN used ELSE Release(used, paths[1], bw)

RECURSIVE ReleasePaths(_, _, _, _)
\* for path in slice_info['paths']: release on every edge
ReleasePaths(used, paths, k, bw) ==
    IF k > Len(paths) THEN used
    ELSE ReleasePaths(Release(used, paths[k], bw), paths, k + 1, bw)

\* Teardown without del self.active_slices[slice_name]
TeardownKeepsRecord(st, dps, name, slice_info) ==
    [ rules   |-> IF dps # {}
                  THEN RemoveFlows(st.rules, dps, slices[name].flows, 1)
                  ELSE st.rules,
      used    |-> ReleasePaths(st.used, slice_info.paths, 1, slice_info.bw),
      shapers |-> { q \in st.shapers :
                      ~(q.slice = name /\ q.iface \in slice_info.ifaces) },
      active  |-> st.active ]

\* Teardown without the queue_delete.sh loop
TeardownKeepsShapers(st, dps, name, slice_info) ==
    [ rules   |-> IF dps # {}
                  THEN RemoveFlows(st.rules, dps, slices[name].flows, 1)
                  ELSE st.rules,
      used    |-> ReleasePaths(st.used, slice_info.paths, 1, slice_info.bw),
      shapers |-> st.shapers,
      active  |-> SelectSeq(st.active, LAMBDA r : r.name # name) ]

\* the body of deactivate_slice for a slice that is active, whose record
\* is slice_info
Teardown(st, dps, name, slice_info) ==
    [ rules   |-> IF dps # {}
                  THEN RemoveFlows(st.rules, dps, slices[name].flows, 1)
                  ELSE st.rules,
      used    |-> ReleasePaths(st.used, slice_info.paths, 1, slice_info.bw),
      shapers |-> { q \in st.shapers :
                      ~(q.slice = name /\ q.iface \in slice_info.ifaces) },
      active  |-> SelectSeq(st.active, LAMBDA r : r.name # name) ]

\* deactivate_slice(slice_name): (False, msg) when the slice is not active
deactivate_slice(st, dps, name) ==
    IF ~IsActive(st.active, name)
    THEN [st |-> st, result |-> "fail", msg |-> "not_active", adm |-> NoAdmission]
    ELSE [st |-> Teardown(st, dps, name, RecordOf(st.active, name)),
          result |-> "ok", msg |-> "deactivated", adm |-> NoAdmission]

\* DeactivateAll stopping after the first victim of the list
DeactivateFirstOnly(st, dps, order, k) ==
    IF k > Len(order) THEN st
    ELSE deactivate_slice(st, dps, order[k]).st

RECURSIVE DeactivateAll(_, _, _, _)
\* phase 2, for victim_name in list(victims_to_preempt)
DeactivateAll(st, dps, order, k) ==
    IF k > Len(order) THEN st
    ELSE DeactivateAll(deactivate_slice(st, dps, order[k]).st, dps, order, k + 1)

(***************************************************************************)
(* activate_slice                                                          *)
(***************************************************************************)

\* the orders in which list(set) may yield the members of S
Orders(S) ==
    { o \in [1..Cardinality(S) -> S] : \A i, j \in DOMAIN o : i # j => o[i] # o[j] }

\* the record phase 3 starts with
NewRecord(name) ==
    [name |-> name, ifaces |-> {}, paths |-> <<>>, bw |-> slices[name].capacity_pct]

\* self.active_slices[slice_name] = {...}: a dict assignment, which
\* replaces the value of a key the dict holds and else adds the key last
SetRecord(active, rec) ==
    IF IsActive(active, rec.name) THEN ReplaceRecord(active, rec.name, rec)
    ELSE Append(active, rec)

\* ReturnRefused with the victims gathered so far deactivated as they are found
ReturnRefusedAfterPreempting(st, dps, victims) ==
    DeactivateAll(st, dps, CHOOSE o \in Orders(victims) : TRUE, 1)

\* return False, msg in phase 1: the state handed back when the admission is
\* refused with the victims gathered so far (phase 2 has not run)
ReturnRefused(st, dps, victims) == st

\* the end of phase 3: (True, msg), or the exception of install_path
Phase3Result(r, adm) ==
    [st |-> r.st,
     result |-> IF r.status = "ok" THEN "ok" ELSE "raise",
     msg |-> IF r.status = "ok" THEN "activated" ELSE "install",
     adm |-> adm]

\* AfterPhase1 with phase 3 run before phase 2: the bandwidth is reserved
\* and the paths are installed, then the victims are deactivated
ReserveBeforePreempt(st, dps, name, order, adm) ==
    CASE adm.status = "raise" ->
           [st |-> st, result |-> "raise", msg |-> "phase1", adm |-> adm]
      [] adm.status \in {"refused", "no_path"} ->
           [st |-> ReturnRefused(st, dps, adm.victims), result |-> "fail",
            msg |-> adm.status, adm |-> adm]
      [] OTHER ->
           [ Phase3Result(
                 InstallAll([st EXCEPT !.active = SetRecord(@, NewRecord(name))],
                            dps, name, adm.paths, 1),
                 adm)
             EXCEPT !.st = DeactivateAll(@, dps, order, 1) ]

\* activate_slice after phase 1 has produced adm
AfterPhase1(st, dps, name, order, adm) ==
    CASE adm.status = "raise" ->
           [st |-> st, result |-> "raise", msg |-> "phase1", adm |-> adm]
      [] adm.status \in {"refused", "no_path"} ->
           [st |-> ReturnRefused(st, dps, adm.victims), result |-> "fail",
            msg |-> adm.status, adm |-> adm]
      [] OTHER ->
           Phase3Result(
               InstallAll([DeactivateAll(st, dps, order, 1) EXCEPT
                              !.active = SetRecord(@, NewRecord(name))],
                          dps, name, adm.paths, 1),
               adm)

\* activate_slice without the test "slice_name in self.active_slices"
ActivateWithoutActiveGuard(loaded, st, dps, name, order) ==
    IF name \notin SliceNames
    THEN [st |-> st, result |-> "fail", msg |-> "not_found", adm |-> NoAdmission]
    ELSE AfterPhase1(st, dps, name, order,
                     Phase1(loaded, st.active, st.used, name))

\* activate_slice(slice_name); order lists the victims in the order in
\* which list(victims_to_preempt) yields them
activate_slice(loaded, st, dps, name, order) ==
    IF name \notin SliceNames
    THEN [st |-> st, result |-> "fail", msg |-> "not_found", adm |-> NoAdmission]
    ELSE IF IsActive(st.active, name)
    THEN [st |-> st, result |-> "fail", msg |-> "already_active",
          adm |-> NoAdmission]
    ELSE AfterPhase1(st, dps, name, order,
                     Phase1(loaded, st.active, st.used, name))

(***************************************************************************)
(* The state machine.                                                      *)
(***************************************************************************)
VARIABLES
    net_loaded,     \* self.net holds the static topology (get_topology_data ran)
    used_bw,        \* self.net.edges[u, v]['used_bw']
    active_slices,  \* self.active_slices, in insertion order
    datapaths,      \* the switches get_switch(self, None) reports
    flow_table,     \* the rules installed on the switches
    shapers,        \* the live shaper queues
    last,           \* the last event: the call, its result, its admission
    early_calls,    \* API calls served before every switch had connected
    requests,       \* the POST requests that reached the HTTP server, in order
    mac_to_port     \* self.mac_to_port: per switch, MAC address -> port

vars == <<net_loaded, used_bw, active_slices, datapaths, flow_table, shapers,
          last, early_calls, requests, mac_to_port>>

\* The API calls served while some switch has yet to connect are bounded;
\* once the five switches are connected the calls are unbounded.
MaxEarlyCalls == 1

\* the controller's mutable state as one value
State == [active |-> active_slices, used |-> used_bw, rules |-> flow_table,
          shapers |-> shapers]

Idle == [active |-> <<>>, used |-> [e \in Edges |-> 0], rules |-> {},
         shapers |-> {}]

\* again: the event before this one was a successful call of the same
\* operation on the same slice
Event(op, name, result, msg, adm, again) ==
    [op |-> op, name |-> name, result |-> result, msg |-> msg, adm |-> adm,
     again |-> again]

\* __init__: no slice active, an empty graph, no switch connected yet
Init ==
    /\ net_loaded = FALSE
    /\ used_bw = Idle.used
    /\ active_slices = <<>>
    /\ datapaths = {}
    /\ flow_table = {}
    /\ shapers = {}
    /\ last = Event("init", "", "ok", "", NoAdmission, FALSE)
    /\ early_calls = 0
    /\ requests = <<>>
    /\ mac_to_port = <<>>

\* a switch connects: EventSwitchEnter -> handler_switch_enter ->
\* get_topology_data loads the static topology once
SwitchEnter(dp) ==
    /\ dp \notin datapaths
    /\ datapaths' = datapaths \cup {dp}
    /\ net_loaded' = TRUE
    /\ last' = Event("switch_enter", "", "ok", "", NoAdmission, FALSE)
    /\ UNCHANGED <<used_bw, active_slices, flow_table, shapers, early_calls,
                   requests, mac_to_port>>

\* victims_to_preempt when phase 2 is reached, else no victim
VictimsOf(adm) == IF adm.status = "ok" THEN adm.victims ELSE {}

VictimsToPreempt(loaded, st, name) ==
    IF name \in SliceNames /\ ~IsActive(st.active, name)
    THEN VictimsOf(Phase1(loaded, st.active, st.used, name))
    ELSE {}

\* a request is served
Served ==
    /\ datapaths = Switches \/ early_calls < MaxEarlyCalls
    /\ early_calls' = IF datapaths = Switches THEN early_calls ELSE early_calls + 1

\* the call's state changes and the event it leaves in last
Return(r, op, name) ==
    /\ Served
    /\ active_slices' = r.st.active
    /\ used_bw' = r.st.used
    /\ flow_table' = r.st.rules
    /\ shapers' = r.st.shapers
    /\ last' = Event(op, name, r.result, r.msg, r.adm,
                     last.op = op /\ last.name = name /\ last.result = "ok")
    /\ UNCHANGED <<net_loaded, datapaths, requests, mac_to_port>>

\* POST /slice/<name>/activate
Activate(name) ==
    \E order \in Orders(VictimsToPreempt(net_loaded, State, name)) :
        \E r \in {activate_slice(net_loaded, State, datapaths, name, order)} :
            Return(r, "activate", name)

\* POST /slice/<name>/deactivate
Deactivate(name) ==
    \E r \in {deactivate_slice(State, datapaths, name)} :
        Return(r, "deactivate", name)

Next ==
    \/ \E dp \in Switches : SwitchEnter(dp)
    \/ \E name \in RequestNames : Activate(name)
    \/ \E name \in RequestNames : Deactivate(name)

Spec == Init /\ [][Next]_vars

(***************************************************************************)
(* The HTTP server.  _start_http_server runs one HTTPServer in one thread: *)
(* serve_forever takes a connection from the listen queue, runs do_POST to *)
(* its end and only then takes the next.  A call of the controller is cut  *)
(* in two steps here, the reads that decide it (guards, phase 1) and the   *)
(* writes that carry it out, so that two handlers running at once would    *)
(* show.                                                                   *)
(***************************************************************************)

\* The requests that reach the server in one run.
MaxRequests == 2

\* the slice names the requests of the server runs carry
ServerNames == {"A", "B", "G", "Z"}

\* parts = self.path.strip('/').split('/'): the well-formed paths, a path
\* with an unknown action, one with a wrong first segment, one with two
\* segments
RequestPaths ==
    { <<"slice", n, a>> : n \in ServerNames, a \in {"activate", "deactivate"} }
    \cup { <<"slice", "A", "restart">>, <<"slices", "A", "activate">>,
           <<"slice", "A">> }

\* do_POST's routing: None when the request is handed to the controller,
\* else the code of send_error
RouteError(parts) ==
    IF Len(parts) = 3 /\ parts[1] = "slice"
    THEN IF parts[3] \in {"activate", "deactivate"} THEN None ELSE 400
    ELSE 404

\* send_response(200) if success else send_response(409); an exception
\* leaves do_POST before any response is sent
StatusOf(result) ==
    CASE result = "ok" -> 200
      [] result = "fail" -> 409
      [] OTHER -> None

\* a request in the listen queue; overlap: it arrived while an earlier
\* request was waiting or being handled
Queued(parts, overlap) ==
    [parts |-> parts, pc |-> "queued", overlap |-> overlap,
     adm |-> NoAdmission, info |-> <<>>, result |-> "", msg |-> "",
     code |-> None]

\* a ThreadingHTTPServer: a request is accepted while handlers run
CanAcceptWhileRunning(reqs) == TRUE

\* HTTPServer handles one request at a time: the next is accepted when no
\* handler is running
CanAccept(reqs) == \A j \in 1..Len(reqs) : reqs[j].pc # "running"

\* the handler answered
Answered(req, result, msg, code) ==
    [req EXCEPT !.pc = "done", !.result = result, !.msg = msg, !.code = code]

\* the reads that open a call: the guards of activate_slice and its
\* phase 1, or the guard of deactivate_slice and the record it reads
BeginCall(req, loaded, st, action, name) ==
    IF action = "activate"
    THEN IF name \notin SliceNames
         THEN Answered(req, "fail", "not_found", StatusOf("fail"))
         ELSE IF IsActive(st.active, name)
         THEN Answered(req, "fail", "already_active", StatusOf("fail"))
         ELSE [req EXCEPT !.pc = "running",
                          !.adm = Phase1(loaded, st.active, st.used, name)]
    ELSE IF ~IsActive(st.active, name)
         THEN Answered(req, "fail", "not_active", StatusOf("fail"))
         ELSE [req EXCEPT !.pc = "running",
                          !.info = <<RecordOf(st.active, name)>>]

\* do_POST up to the end of the call's reads
Begin(req, loaded, st) ==
    IF RouteError(req.parts) # None
    THEN Answered(req, "error", "", RouteError(req.parts))
    ELSE BeginCall(req, loaded, st, req.parts[3], req.parts[2])

\* the writes that end a call: phases 2 and 3 of activate_slice, or the
\* body of deactivate_slice
FinishCall(req, st, dps, order) ==
    IF req.parts[3] = "activate"
    THEN AfterPhase1(st, dps, req.parts[2], order, req.adm)
    ELSE [st |-> Teardown(st, dps, req.parts[2], req.info[1]),
          result |-> "ok", msg |-> "deactivated", adm |-> NoAdmission]

\* every switch has connected, the topology is loaded, no slice is active
InitServer ==
    /\ net_loaded = TRUE
    /\ used_bw = Idle.used
    /\ active_slices = <<>>
    /\ datapaths = Switches
    /\ flow_table = {}
    /\ shapers = {}
    /\ last = Event("init", "", "ok", "", NoAdmission, FALSE)
    /\ early_calls = 0
    /\ requests = <<>>
    /\ mac_to_port = <<>>

\* a client's POST reaches the listen queue
Submit(parts) ==
    /\ Len(requests) < MaxRequests
    /\ requests' = Append(requests,
           Queued(parts, \E j \in 1..Len(requests) : requests[j].pc # "done"))
    /\ UNCHANGED <<net_loaded, used_bw, active_slices, datapaths, flow_table,
                   shapers, last, early_calls, mac_to_port>>

\* the server takes the oldest waiting request and runs do_POST up to the
\* end of the call's reads
Accept(i) ==
    /\ requests[i].pc = "queued"
    /\ \A j \in 1..(i - 1) : requests[j].pc # "queued"
    /\ CanAccept(requests)
    /\ requests' = [requests EXCEPT ![i] = Begin(@, net_loaded, State)]
    /\ UNCHANGED <<net_loaded, used_bw, active_slices, datapaths, flow_table,
                   shapers, last, early_calls, mac_to_port>>

\* the state and the answer a finished call leaves
Finished(i, r) ==
    /\ active_slices' = r.st.active
    /\ used_bw' = r.st.used
    /\ flow_table' = r.st.rules
    /\ shapers' = r.st.shapers
    /\ requests' = [requests EXCEPT
                      ![i] = Answered(@, r.result, r.msg, StatusOf(r.result))]
    /\ UNCHANGED <<net_loaded, datapaths, last, early_calls, mac_to_port>>

\* the handler carries the call out and answers
Finish(i) ==
    /\ requests[i].pc = "running"
    /\ \E order \in Orders(VictimsOf(requests[i].adm)) :
          \E r \in {FinishCall(requests[i], State, datapaths, order)} :
              Finished(i, r)

(***************************************************************************)
(* The packet-in handler: an L2 learning switch for the traffic no slice   *)
(* rule matches.  It runs in the controller's event loop, beside the       *)
(* thread of the HTTP server.                                              *)
(***************************************************************************)
LLDP == "lldp"
IPv4 == "ipv4"
IPv6 == "ipv6"

\* ofproto.OFPP_FLOOD, as a port no link uses
FLOOD == 255

\* the packets that reach the controller: two hosts of switch 1 talking to
\* each other, an IPv6 multicast frame and an LLDP frame
PacketIns ==
    { [dpid |-> 1, in_port |-> 3, src |-> "00:00:00:00:00:01",
       dst |-> "00:00:00:00:00:02", ethertype |-> IPv4],
      [dpid |-> 1, in_port |-> 4, src |-> "00:00:00:00:00:02",
       dst |-> "00:00:00:00:00:01", ethertype |-> IPv4],
      [dpid |-> 1, in_port |-> 3, src |-> "00:00:00:00:00:01",
       dst |-> "33:33:00:00:00:16", ethertype |-> IPv6],
      [dpid |-> 2, in_port |-> 1, src |-> "00:00:00:00:00:0a",
       dst |-> "01:80:c2:00:00:0e", ethertype |-> LLDP] }

\* eth.dst.startswith('33:33:')
IsIPv6Multicast(dst) == dst \in {"33:33:00:00:00:16"}

\* is_slice_flow(mac_src, mac_dst)
is_slice_flow(mac_src, mac_dst) == FALSE

\* self.mac_to_port.setdefault(dpid, {}); self.mac_to_port[dpid][src] = in_port
Learn(table, dpid, src, in_port) ==
    IF dpid \in DOMAIN table
    THEN [table EXCEPT ![dpid] = (src :> in_port) @@ @]
    ELSE (dpid :> (src :> in_port)) @@ table

\* the output port: the learned port of dst, else FLOOD
OutPort(table, dpid, dst) ==
    IF dst \in DOMAIN table[dpid] THEN table[dpid][dst] ELSE FLOOD

\* add_flow(datapath, 1, OFPMatch(in_port=in_port, eth_dst=dst), actions):
\* one entry per (priority, match) on a switch
AddL2Flow(rules, dpid, in_port, dst, out) ==
    { r \in rules : ~(r.sw = dpid /\ r.priority = 1 /\ r.in_port = in_port
                      /\ r.eth_dst = dst) }
    \cup { [sw |-> dpid, priority |-> 1, in_port |-> in_port, eth_dst |-> dst,
            out |-> out] }

\* the rule _packet_in_handler installs once the output port is known
InstallL2(rules, pkt, out_port) ==
    IF out_port # FLOOD /\ ~is_slice_flow(pkt.src, pkt.dst)
    THEN AddL2Flow(rules, pkt.dpid, pkt.in_port, pkt.dst, out_port)
    ELSE rules

\* _packet_in_handler: the MAC table and the rules after the packet
packet_in(table, rules, pkt) ==
    IF pkt.ethertype = LLDP \/ IsIPv6Multicast(pkt.dst)
    THEN [mac_to_port |-> table, rules |-> rules]
    ELSE [mac_to_port |-> Learn(table, pkt.dpid, pkt.src, pkt.in_port),
          rules |-> InstallL2(rules, pkt,
                       OutPort(Learn(table, pkt.dpid, pkt.src, pkt.in_port),
                               pkt.dpid, pkt.dst))]

\* PacketIn, also reloading the graph's counters as get_topology_data does
PacketInReloading(pkt) ==
    /\ pkt.dpid \in datapaths
    /\ mac_to_port' = packet_in(mac_to_port, flow_table, pkt).mac_to_port
    /\ flow_table' = packet_in(mac_to_port, flow_table, pkt).rules
    /\ used_bw' = Idle.used
    /\ UNCHANGED <<net_loaded, active_slices, datapaths, shapers, last,
                   early_calls, requests>>

\* EventOFPPacketIn from a connected switch
PacketIn(pkt) ==
    /\ pkt.dpid \in datapaths
    /\ mac_to_port' = packet_in(mac_to_port, flow_table, pkt).mac_to_port
    /\ flow_table' = packet_in(mac_to_port, flow_table, pkt).rules
    /\ UNCHANGED <<net_loaded, used_bw, active_slices, datapaths, shapers,
                   last, early_calls, requests>>

NextServer ==
    \/ \E parts \in RequestPaths : Submit(parts)
    \/ \E i \in 1..Len(requests) : Accept(i)
    \/ \E i \in 1..Len(requests) : Finish(i)
    \/ \E pkt \in PacketIns : PacketIn(pkt)

SpecServer == InitServer /\ [][NextServer]_vars

(***************************************************************************)
(* Properties.                                                             *)
(***************************************************************************)

RECURSIVE SumOverPaths(_, _, _, _)
\* bw once for every path among paths[k..] that traverses e
SumOverPaths(paths, k, bw, e) ==
    IF k > Len(paths) THEN 0
    ELSE (IF Traverses(paths[k], e) THEN bw ELSE 0)
         + SumOverPaths(paths, k + 1, bw, e)

RECURSIVE ReservedOn(_, _, _)
\* the sum over the records active[i..] of the bandwidth their paths hold on e
ReservedOn(active, i, e) ==
    IF i > Len(active) THEN 0
    ELSE SumOverPaths(active[i].paths, 1, active[i].bw, e)
         + ReservedOn(active, i + 1, e)

\* C1: capacity conservation.  In every reachable state, used_bw of every
\* directed edge is the sum, over the active slices and over each recorded
\* path that traverses the edge, of the slice's reserved bandwidth.
CapacityConservation ==
    \A e \in Edges : used_bw[e] = ReservedOn(active_slices, 1, e)

\* C1 witness: an activation has just preempted a victim while a slice
\* with two recorded paths is active.
PreemptionBesideTwoPaths ==
    /\ last.op = "activate" /\ last.result = "ok" /\ last.adm.victims # {}
    /\ \E i \in 1..Len(active_slices) : Len(active_slices[i].paths) > 1

\* C2: capacity bound.  After every completed call, 0 <= used_bw(e) <=
\* capacity(e) on every directed edge.
CapacityBound ==
    \A e \in Edges : 0 <= used_bw[e] /\ used_bw[e] <= Capacity

\* C3: rollback on failure.  When activate_slice(x) ends with an error
\* raised after the admission phase, the state is the state before the call
\* with the victims deactivated, and x is not in the active table.
RollbackOnFailure ==
    [][ (last'.op = "activate" /\ last'.result = "raise" /\ last'.msg = "install")
        => /\ State' = DeactivateAll(State, datapaths,
                          CHOOSE o \in Orders(last'.adm.victims) : TRUE, 1)
           /\ ~IsActive(active_slices', last'.name) ]_vars

\* C4: a refused admission changes nothing.  A step that is an
\* activate_slice call refused for lack of capacity leaves the active
\* table, the counters, the rules and the shapers as they were.
RefusalChangesNothing ==
    [][ (last'.op = "activate" /\ last'.result = "fail" /\ last'.msg = "refused")
        => State' = State ]_vars

\* C4 witness: an activation was refused on a later edge after victims had
\* been picked on an earlier one, and those victims are still active.
RefusedWithTentativeVictims ==
    /\ last.op = "activate" /\ last.msg = "refused"
    /\ last.adm.victims # {}
    /\ last.adm.victims \subseteq ActiveNames(active_slices)

\* C5: priority monotonicity.  Every slice that leaves the active table in
\* a step that is an activate_slice(y) call has a priority strictly lower
\* than y's.
PriorityMonotonicity ==
    [][ last'.op = "activate"
        => \A n \in ActiveNames(active_slices) \ ActiveNames(active_slices') :
               PriorityOf(n) < PriorityOf(last'.name) ]_vars

\* C5 witness: B (priority 2) has been activated by preempting A
\* (priority 1).
BPreemptedA ==
    /\ last.op = "activate" /\ last.name = "B" /\ last.result = "ok"
    /\ "A" \in last.adm.victims
    /\ ~IsActive(active_slices, "A")

RECURSIVE SumBw(_)
\* the reserved bandwidth of a set of slices
SumBw(S) ==
    IF S = {} THEN 0
    ELSE slices[CHOOSE n \in S : TRUE].capacity_pct
         + SumBw(S \ {CHOOSE n \in S : TRUE})

\* the first j elements of a sequence, as a set
Prefix(seq, j) == { seq[i] : i \in 1..j }

\* C6 as claimed: preemption minimality.  After a successful activation,
\* on every bottleneck edge no strict subset of the victims chosen for the
\* edge frees enough bandwidth.
PreemptionMinimality ==
    (last.op = "activate" /\ last.result = "ok")
    => \A k \in 1..Len(last.adm.links) :
         \A W \in SUBSET SeqRange(last.adm.links[k].chosen) :
            W # SeqRange(last.adm.links[k].chosen)
            => last.adm.links[k].available + SumBw(W)
                 < slices[last.name].capacity_pct

\* C6 as amended: after a successful activation, on every bottleneck edge
\* no proper prefix of the victims, in the order in which they were chosen
\* for the edge, frees enough bandwidth.
PrefixMinimality ==
    (last.op = "activate" /\ last.result = "ok")
    => \A k \in 1..Len(last.adm.links) :
         \A j \in 0..(Len(last.adm.links[k].chosen) - 1) :
            last.adm.links[k].available
              + SumBw(Prefix(last.adm.links[k].chosen, j))
                 < slices[last.name].capacity_pct

\* C6 witness: a successful activation chose two victims on one edge.
TwoVictimsOnOneLink ==
    /\ last.op = "activate" /\ last.result = "ok"
    /\ \E k \in 1..Len(last.adm.links) : Len(last.adm.links[k].chosen) >= 2

\* the rules I3 asks for, for one path of a flow
HasRules(rules, p, flow) ==
    /\ \A i \in 1..(Len(p) - 1) :
         /\ [sw |-> p[i], priority |-> 10, ipv4_src |-> IP_MAP[flow.src],
             ipv4_dst |-> IP_MAP[flow.dst], out |-> Port(p[i], p[i + 1])]
              \in rules
         /\ [sw |-> p[i + 1], priority |-> 10, ipv4_src |-> IP_MAP[flow.dst],
             ipv4_dst |-> IP_MAP[flow.src], out |-> Port(p[i + 1], p[i])]
              \in rules
    /\ [sw |-> p[1], priority |-> 9, ipv4_src |-> IP_MAP[flow.src],
        ipv4_dst |-> Wildcard, out |-> Drop] \in rules
    /\ [sw |-> p[Len(p)], priority |-> 9, ipv4_src |-> IP_MAP[flow.dst],
        ipv4_dst |-> Wildcard, out |-> Drop] \in rules

\* C7: rule presence for active slices, stated for the runs in which every
\* call was served with all five switches connected.  Every active slice
\* has, for each of its flows, a recorded path with a priority-10 forward
\* rule on every hop, a priority-10 reverse rule on every hop of the
\* reversed path, and a priority-9 drop rule at the first and last switch.
RulePresence ==
    early_calls = 0
    => \A i \in 1..Len(active_slices) :
         \A k \in 1..Len(slices[active_slices[i].name].flows) :
            /\ k <= Len(active_slices[i].paths)
            /\ HasRules(flow_table, active_slices[i].paths[k],
                        slices[active_slices[i].name].flows[k])

\* C8: idempotence of deactivation.  A deactivate_slice(x) call that
\* directly follows a successful deactivate_slice(x) fails with "not
\* active" and leaves the table, the counters, the rules and the shapers
\* unchanged.
DeactivationIdempotent ==
    [][ ( /\ last.op = "deactivate" /\ last.result = "ok"
          /\ last'.op = "deactivate" /\ last'.name = last.name )
        => /\ last'.result = "fail" /\ last'.msg = "not_active"
           /\ State' = State ]_vars

\* C8 witness: deactivate_slice(x) has just been called right after a
\* successful deactivate_slice(x) that released bandwidth.
DeactivatedTwice ==
    /\ last.op = "deactivate" /\ last.again
    /\ last.name \in SliceNames

\* C9: bidirectional reservation.  After a successful activation of a
\* one-flow slice on an idle network, used_bw equals the slice's
\* capacity_pct on both directed edges of every link of its path.
BidirectionalReservation ==
    ( /\ last.op = "activate" /\ last.result = "ok"
      /\ last.adm.victims = {}
      /\ Len(slices[last.name].flows) = 1
      /\ Len(active_slices) = 1 )
    => \A i \in 1..(Len(last.adm.paths[1]) - 1) :
         /\ used_bw[<<last.adm.paths[1][i], last.adm.paths[1][i + 1]>>]
              = slices[last.name].capacity_pct
         /\ used_bw[<<last.adm.paths[1][i + 1], last.adm.paths[1][i]>>]
              = slices[last.name].capacity_pct

\* what two runs are compared on: the active table as a mapping (its
\* contents, not its insertion order) and the bandwidth counters
View(st) == [active |-> SeqRange(st.active), used |-> st.used]

\* activate_slice(name) from state st, with the graph and the datapaths of
\* the current state
Call(st, name) ==
    activate_slice(net_loaded, st, datapaths, name,
        CHOOSE o \in Orders(VictimsToPreempt(net_loaded, st, name)) : TRUE)

\* what the caller and an observer see of a call
OutcomeOf(r) ==
    [result |-> r.result, msg |-> r.msg, victims |-> r.adm.victims,
     paths |-> r.adm.paths, post |-> View(r.st)]

\* one more call of a run: the slice must have entered the active table
RunStep(acc, r) ==
    [st |-> r.st, ok |-> acc.ok /\ (r.result = "ok" \/ r.msg = "install")]

RECURSIVE Run(_, _, _)
\* the run that starts from the idle controller and activates the slices
\* order[k..] one after the other
Run(order, k, acc) ==
    IF k > Len(order) THEN acc
    ELSE Run(order, k + 1, RunStep(acc, Call(acc.st, order[k])))

\* the run ended in a state equal to the current one, and some request
\* has different outcomes in the two
SameOutcomes(other) ==
    (other.ok /\ View(other.st) = View(State))
    => \A name \in RequestNames :
          OutcomeOf(Call(other.st, name)) = OutcomeOf(Call(State, name))

\* C10: determinism.  Any other run of the program that reaches a state
\* with the same active table contents and the same bandwidth counters
\* gives, for every request, the same decision, victims, paths and
\* post-state as the current state does.  The other runs considered are
\* the ones that activate the currently active slices from the idle
\* controller in some order.
Determinism ==
    datapaths = Switches
    => \A order \in Orders(ActiveNames(active_slices)) :
          SameOutcomes(Run(order, 1, [st |-> Idle, ok |-> TRUE]))

\* a flow of the slice names a host that get_host_location does not know
HasUnknownHost(name) ==
    \E k \in 1..Len(slices[name].flows) :
        \/ get_host_location(slices[name].flows[k].src) = None
        \/ get_host_location(slices[name].flows[k].dst) = None

\* C11: unroutable or unknown-host flows are rejected as values.  An
\* activate_slice(x) call, made once the topology is loaded, for an inactive
\* catalog slice with a flow whose source or destination host is unknown
\* ends by returning failure to the caller; it does not end with an
\* exception.
UnknownHostRejected ==
    ( /\ net_loaded
      /\ last.op = "activate" /\ last.name \in SliceNames
      /\ last.msg # "already_active"
      /\ HasUnknownHost(last.name) )
    => last.result = "fail"

\* no name occurs twice in the active table
NoDuplicates(active) ==
    \A i, j \in 1..Len(active) : active[i].name = active[j].name => i = j

\* C12: activation guards.  An activate_slice(x) call for a name that is
\* not in the catalog, or that is in the active table, returns failure and
\* changes no state; after every step every name in the active table is a
\* catalog name and no name is in the table twice.
ActivationGuards ==
    [][ /\ ( /\ last'.op = "activate"
             /\ \/ last'.name \notin SliceNames
                \/ IsActive(active_slices, last'.name) )
           => ( /\ last'.result = "fail"
                /\ last'.msg \in {"not_found", "already_active"}
                /\ State' = State )
        /\ ActiveNames(active_slices') \subseteq SliceNames
        /\ NoDuplicates(active_slices') ]_vars

\* C12 witness: an activation of a slice that is in the active table with
\* bandwidth reserved has just been turned down.
TurnedDownAlreadyActive ==
    /\ last.op = "activate" /\ last.msg = "already_active"
    /\ IsActive(active_slices, last.name)
    /\ \E e \in Edges : used_bw[e] > 0

\* do_POST run from its first line to its last on state st
Serve(st, parts) ==
    IF RouteError(parts) # None
    THEN [st |-> st, result |-> "error", msg |-> "", code |-> RouteError(parts)]
    ELSE IF parts[3] = "activate"
    THEN [st |-> Call(st, parts[2]).st, result |-> Call(st, parts[2]).result,
          msg |-> Call(st, parts[2]).msg,
          code |-> StatusOf(Call(st, parts[2]).result)]
    ELSE [st |-> deactivate_slice(st, datapaths, parts[2]).st,
          result |-> deactivate_slice(st, datapaths, parts[2]).result,
          msg |-> deactivate_slice(st, datapaths, parts[2]).msg,
          code |-> StatusOf(deactivate_slice(st, datapaths, parts[2]).result)]

\* one more request of a serial run, compared with the answer the server
\* gave to it
SerialStep(acc, r, req) ==
    [st |-> r.st,
     same |-> /\ acc.same
              /\ r.result = req.result /\ r.msg = req.msg /\ r.code = req.code]

RECURSIVE Serial(_, _, _)
\* the serial run that serves the requests order[k..] one after the other
Serial(order, k, acc) ==
    IF k > Len(order) THEN acc
    ELSE Serial(order, k + 1,
                SerialStep(acc, Serve(acc.st, requests[order[k]].parts),
                           requests[order[k]]))

\* the serial run ends in the current state, the rules of the learning
\* switch left aside, with the answers the server gave
SameAsSerial(r) ==
    r.same /\ r.st = [State EXCEPT !.rules = { x \in @ : x.priority # 1 }]

\* C13: serialized transitions.  Whenever no handler is running, the state
\* and every answer given so far are those of some serial order of the
\* answered requests, each served from its first line to its last with no
\* other request in between.
SerializedTransitions ==
    (\A i \in 1..Len(requests) : requests[i].pc \in {"queued", "done"})
    => \E order \in Orders({ i \in 1..Len(requests) : requests[i].pc = "done" }) :
          SameAsSerial(Serial(order, 1, [st |-> Idle, same |-> TRUE]))

\* C13 witness: two activations have been answered, the second arrived
\* while the first was waiting or being handled, and it preempted the first.
OverlappingActivations ==
    /\ Len(requests) = 2
    /\ \A i \in 1..2 : requests[i].pc = "done" /\ requests[i].result = "ok"
    /\ requests[2].overlap
    /\ requests[2].adm.victims # {}

\* the state phase 2 leaves when it deactivates the victims in order o
Preempted(o) == DeactivateAll(State, datapaths, o, 1)

RECURSIVE PreemptWalk(_, _, _, _, _)
\* victim order[k] has been deactivated with outcome r
PreemptStep(r, dps, order, k, ok) ==
    PreemptWalk(r.st, dps, order, k + 1, ok /\ r.result = "ok")

\* phase 2 followed victim by victim: the state it leaves, and whether
\* every deactivate_slice call returned success
PreemptWalk(st, dps, order, k, ok) ==
    IF k > Len(order) THEN [st |-> st, ok |-> ok]
    ELSE PreemptStep(deactivate_slice(st, dps, order[k]), dps, order, k, ok)

\* C14: preempt before reserve.  In every activate_slice(x) step that
\* passes admission with victims: whatever the order in which the victims
\* are taken, each victim is still active when phase 2 reaches it, so its
\* deactivation succeeds, and phase 2 leaves one and the same state; in
\* that state no victim is in the active table and every counter holds only
\* what the remaining slices reserve; and the step's post-state is the one
\* phase 3 produces from that state.
PreemptBeforeReserve ==
    [][ ( /\ last'.op = "activate" /\ last'.adm.status = "ok"
          /\ last'.adm.victims # {} )
        => \A p \in {Preempted(CHOOSE o \in Orders(last'.adm.victims) : TRUE)} :
             /\ \A o \in Orders(last'.adm.victims) :
                   PreemptWalk(State, datapaths, o, 1, TRUE)
                     = [st |-> p, ok |-> TRUE]
             /\ ActiveNames(p.active)
                  = ActiveNames(active_slices) \ last'.adm.victims
             /\ \A e \in Edges : p.used[e] = ReservedOn(p.active, 1, e)
             /\ State' = InstallAll(
                             [p EXCEPT !.active =
                                 SetRecord(@, NewRecord(last'.name))],
                             datapaths, last'.name, last'.adm.paths, 1).st ]_vars

\* C14 witness: an activation has just preempted two victims, and neither
\* is in the active table.
PreemptedTwoVictims ==
    /\ last.op = "activate" /\ last.result = "ok"
    /\ Cardinality(last.adm.victims) >= 2
    /\ last.adm.victims \cap ActiveNames(active_slices) = {}

\* the (slice, interface) pairs of the live shapers
LiveShapers == { <<q.slice, q.iface>> : q \in shapers }

\* the (slice, interface) pairs the active table records
RecordedIfaces ==
    UNION { { <<active_slices[k].name, i>> : i \in active_slices[k].ifaces } :
            k \in 1..Len(active_slices) }

\* C15: shaper lifecycle.  In every reachable state the live shapers,
\* identified by (slice name, interface), are exactly the pairs (s, iface)
\* with s in the active table and iface in s's recorded interface set, one
\* shaper per pair.
ShaperLifecycle ==
    /\ LiveShapers = RecordedIfaces
    /\ Cardinality(shapers) = Cardinality(LiveShapers)

\* C15 witness: an activation has just preempted a victim, no shaper of a
\* victim is live, and shapers of active slices are.
VictimShapersDestroyed ==
    /\ last.op = "activate" /\ last.result = "ok" /\ last.adm.victims # {}
    /\ \A q \in shapers : q.slice \notin last.adm.victims
    /\ Cardinality(shapers) >= 2

\* C16: result code mapping.  Every answered POST request carries 200 when
\* the activate or deactivate call succeeded, 409 when the call returned
\* failure (admission refused, already active, not active, unknown slice),
\* and 400 when its path is malformed (wrong number of segments, wrong
\* first segment, or unknown action).
ResultCodeMapping ==
    \A i \in 1..Len(requests) :
        requests[i].pc = "done"
        => /\ requests[i].result = "ok" => requests[i].code = 200
           /\ requests[i].result = "fail" => requests[i].code = 409
           /\ requests[i].result = "error" => requests[i].code = 400

\* C17: packet-in isolation.  A step of the packet-in handler, taken at any
\* point between the steps of the activate and deactivate calls, leaves the
\* active-slice table and every used_bw counter unchanged.
PacketInIsolation ==
    [][ (\E pkt \in PacketIns : PacketIn(pkt))
        => UNCHANGED <<active_slices, used_bw>> ]_vars

\* C17 witness: the handler has learned both hosts and installed an L2 rule
\* while a slice is active and a call is between its reads and its writes.
PacketInDuringCall ==
    /\ \E r \in flow_table : r.priority = 1
    /\ active_slices # <<>>
    /\ \E i \in 1..Len(requests) : requests[i].pc = "running"

\* the catalog's names in ascending order
NamesAscending == <<"A", "B", "C", "D", "E", "G", "H">>

NameRank(n) == CHOOSE i \in 1..Len(NamesAscending) : NamesAscending[i] = n

\* slice a comes before slice b in the specified victim order: ascending
\* priority, then ascending reserved bandwidth, then ascending name
VictimBefore(a, b) ==
    \/ PriorityOf(a) < PriorityOf(b)
    \/ /\ PriorityOf(a) = PriorityOf(b)
       /\ \/ slices[a].capacity_pct < slices[b].capacity_pct
          \/ /\ slices[a].capacity_pct = slices[b].capacity_pct
             /\ NameRank(a) < NameRank(b)

\* the victims chosen on one bottleneck link are the first of the
\* preemptable slices of the link in the specified order, taken in that order
ChosenInOrder(chosen, preemptable) ==
    /\ \A i, j \in 1..Len(chosen) : i < j => VictimBefore(chosen[i], chosen[j])
    /\ \A i \in 1..Len(chosen) : \A j \in 1..Len(preemptable) :
          preemptable[j].name \notin SeqRange(chosen)
          => VictimBefore(chosen[i], preemptable[j].name)

\* C18: victim selection order.  In every activate_slice(x) step that
\* passes admission, on every bottleneck edge the victims are taken in
\* ascending priority, then ascending reserved bandwidth, then ascending
\* name, whatever the order in which the active slices were activated.
VictimSelectionOrder ==
    [][ (last'.op = "activate" /\ last'.adm.status = "ok")
        => \A k \in 1..Len(last'.adm.links) :
              ChosenInOrder(last'.adm.links[k].chosen,
                            Preemptable(active_slices, PriorityOf(last'.name),
                                        last'.adm.links[k].edge)) ]_vars

\* the shaper the specification asks for, for flow k of an active slice
ShaperOfFlow(rec, k) ==
    [slice |-> rec.name, pct |-> slices[rec.name].capacity_pct,
     src |-> IP_MAP[slices[rec.name].flows[k].src],
     dst |-> IP_MAP[slices[rec.name].flows[k].dst],
     iface |-> Iface(rec.paths[k][1], rec.paths[k][2])]

\* C19: shaping per flow.  After a successful activate_slice(x), for every
\* flow (A, B) of x a shaper created with (x, capacity_pct, ip(A), ip(B),
\* first-hop interface of the flow's path) is live, also for a flow whose
\* first hop uses the interface of an earlier flow of x.
ShaperPerFlow ==
    (last.op = "activate" /\ last.result = "ok")
    => \A k \in 1..Len(slices[last.name].flows) :
          ShaperOfFlow(RecordOf(active_slices, last.name), k) \in shapers

\* flow k of the slice joins two hosts of one switch
SameSwitchFlow(name, k) ==
    /\ get_host_location(slices[name].flows[k].src) # None
    /\ get_host_location(slices[name].flows[k].src)
         = get_host_location(slices[name].flows[k].dst)

\* C20: same-switch flows.  An activate_slice(x) call that passes admission
\* for a slice with a flow whose two hosts attach to one switch returns
\* success, and the active record of x then holds the one-element path of
\* that flow.
SameSwitchFlowActivates ==
    ( /\ last.op = "activate" /\ last.adm.status = "ok"
      /\ \E k \in 1..Len(slices[last.name].flows) :
            SameSwitchFlow(last.name, k) )
    => /\ last.result = "ok"
       /\ \A k \in 1..Len(slices[last.name].flows) :
             SameSwitchFlow(last.name, k)
             => RecordOf(active_slices, last.name).paths[k]
                  = <<get_host_location(slices[last.name].flows[k].src)>>

\* the records of the slices in V, in table order
RecordsOf(active, V) == SelectSeq(active, LAMBDA r : r.name \in V)

\* the path nx.shortest_path plans for a flow
PlannedPath(flow) ==
    shortest_path(get_host_location(flow.src), get_host_location(flow.dst))

\* C21: multi-flow accounting.  After a successful activate_slice(x), on
\* every edge used_bw is its value before the call, less what the victims
\* held on the edge, plus capacity_pct once for every path of x that
\* traverses the edge; and the active record of x holds one path per flow,
\* in flow order.
MultiFlowAccounting ==
    [][ (last'.op = "activate" /\ last'.result = "ok")
        => /\ \A e \in Edges :
                used_bw'[e]
                  = used_bw[e]
                    - ReservedOn(RecordsOf(active_slices, last'.adm.victims), 1, e)
                    + SumOverPaths(last'.adm.paths, 1,
                                   slices[last'.name].capacity_pct, e)
           /\ RecordOf(active_slices', last'.name).paths
                = [ k \in 1..Len(slices[last'.name].flows) |->
                      PlannedPath(slices[last'.name].flows[k]) ] ]_vars

\* C21 witness: a slice with two flows whose paths share an edge has just
\* been activated, and the edge carries two reservations of the slice.
TwoFlowsShareEdge ==
    /\ last.op = "activate" /\ last.result = "ok"
    /\ Len(last.adm.paths) = 2
    /\ \E e \in Edges :
          /\ Traverses(last.adm.paths[1], e) /\ Traverses(last.adm.paths[2], e)
          /\ used_bw[e] >= 2 * slices[last.name].capacity_pct

\* on every edge of every planned path of slice x the residual capacity is
\* at least x's capacity_pct
FitsEverywhere(used, name) ==
    \A k \in 1..Len(slices[name].flows) :
        \A i \in 1..Len(PathEdges(PlannedPath(slices[name].flows[k]))) :
            Capacity - used[PathEdges(PlannedPath(slices[name].flows[k]))[i]]
              >= slices[name].capacity_pct

\* C22: no needless preemption.  When the topology is loaded and x is an
\* inactive catalog slice whose hosts are all known, and on every edge of
\* every path of x the residual capacity is at least x's capacity_pct, an
\* activate_slice(x) call succeeds and deactivates no slice: the active
\* table after the call is the table before with the record of x added.
NoNeedlessPreemption ==
    [][ ( /\ last'.op = "activate" /\ net_loaded
          /\ last'.name \in SliceNames
          /\ ~IsActive(active_slices, last'.name)
          /\ ~HasUnknownHost(last'.name)
          /\ FitsEverywhere(used_bw, last'.name) )
        => /\ last'.result = "ok"
           /\ Len(active_slices') = Len(active_slices) + 1
           /\ SubSeq(active_slices', 1, Len(active_slices)) = active_slices
           /\ active_slices'[Len(active_slices')].name = last'.name ]_vars

\* the preemption part of C22 alone: under the same conditions no slice
\* leaves the active table, whether or not the call succeeds
FittingCallPreemptsNothing ==
    [][ ( /\ last'.op = "activate" /\ net_loaded
          /\ last'.name \in SliceNames
          /\ ~IsActive(active_slices, last'.name)
          /\ ~HasUnknownHost(last'.name)
          /\ FitsEverywhere(used_bw, last'.name) )
        => /\ last'.adm.victims = {}
           /\ ActiveNames(active_slices) \subseteq ActiveNames(active_slices')
           /\ last'.result = "ok" \/ last'.msg = "install" ]_vars

\* C23: victim-order independence.  In every activate_slice(x) step that
\* preempts victims, the post-state (active table, counters, rules, shapers)
\* is the one phases 2 and 3 produce for every order in which
\* list(victims_to_preempt) may yield the victims.
VictimOrderIndependence ==
    [][ ( /\ last'.op = "activate" /\ last'.adm.status = "ok"
          /\ last'.adm.victims # {} )
        => \A o \in Orders(last'.adm.victims) :
              AfterPhase1(State, datapaths, last'.name, o, last'.adm).st
                = State' ]_vars

\* C23 witness: an activation has just preempted two victims that differ
\* in reserved bandwidth and in paths.
PreemptedUnlikeVictims ==
    /\ last.op = "activate" /\ last.result = "ok"
    /\ \E a, b \in last.adm.victims :
          /\ slices[a].capacity_pct # slices[b].capacity_pct
          /\ slices[a].flows # slices[b].flows

\* rule r is a forwarding or isolation rule of the given flow
RuleOfFlow(r, flow) ==
    \/ /\ r.priority = 10
       /\ \/ r.ipv4_src = IP_MAP[flow.src] /\ r.ipv4_dst = IP_MAP[flow.dst]
          \/ r.ipv4_src = IP_MAP[flow.dst] /\ r.ipv4_dst = IP_MAP[flow.src]
    \/ /\ r.priority = 9 /\ r.ipv4_dst = Wildcard /\ r.out = Drop
       /\ \/ r.ipv4_src = IP_MAP[flow.src] /\ r.sw = get_host_location(flow.src)
          \/ r.ipv4_src = IP_MAP[flow.dst] /\ r.sw = get_host_location(flow.dst)

\* rule r is a rule of a flow of some slice in the active table
RuleOfActiveSlice(r, active) ==
    \E i \in 1..Len(active) :
        \E k \in 1..Len(slices[active[i].name].flows) :
            RuleOfFlow(r, slices[active[i].name].flows[k])

\* C24: no orphan slice rules.  In every state reached by completed calls,
\* every installed priority-10 forwarding rule and priority-9 drop rule is
\* a rule of a flow of some slice in the active table; so after
\* deactivate_slice(x) no rule that only x has remains on any switch.
NoOrphanRules ==
    \A r \in flow_table :
        r.priority \in {9, 10} => RuleOfActiveSlice(r, active_slices)

\* C24 witness: a slice has just been deactivated with success, none of
\* the remaining rules matches a flow of it, and rules of the slices that
\* stay active remain.
RulesOfOthersRemain ==
    /\ last.op = "deactivate" /\ last.result = "ok"
    /\ flow_table # {}
    /\ \A r \in flow_table :
          \A k \in 1..Len(slices[last.name].flows) :
              ~RuleOfFlow(r, slices[last.name].flows[k])

====
